---- MODULE Spec2Model ----
(***************************************************************************)
(* A model of rand_key's RandKey generator (src/src/lib.rs).               *)
(*                                                                         *)
(* A character and a one-character String are the same value here: a TLA+  *)
(* string holding one code point.  A pool (one Vec<String> of DATA) and a  *)
(* key are sequences of such values.  Counts are naturals (BigUint never   *)
(* overflows).  utils.rs, prelude.rs and error.rs are not part of the      *)
(* sources at hand; the helpers they hold are modelled from the            *)
(* specification and are marked so where they are defined.                 *)
(***************************************************************************)
EXTENDS Naturals, Sequences, FiniteSets, TLC

VARIABLES
    ltr_cnt,    \* RandKey.ltr_cnt
    sbl_cnt,    \* RandKey.sbl_cnt
    num_cnt,    \* RandKey.num_cnt
    key,        \* RandKey.key
    UNIT,       \* RandKey.UNIT
    DATA,       \* RandKey.DATA: <<letters, symbols, numbers>>
    last,       \* <<operation, result>> of the latest call on the generator
    pc,         \* where a join() call stands: idle, map, shuffle, done
    cls,        \* join: the class whose chunks are being mapped (1..3)
    chunks,     \* join: _DIV_UNIT's output for class cls
    res,        \* join: res[i] is what the closure returned for chunk i
    done,       \* join: the chunks of class cls, in the order they finished
    parts,      \* join: the Vec<String> collected for each finished class
    produced,   \* join: every <<class, chunk index, output>> a task returned
    PWD         \* join: the string built before the shuffle

vars == <<ltr_cnt, sbl_cnt, num_cnt, key, UNIT, DATA, last,
          pc, cls, chunks, res, done, parts, produced, PWD>>

gen == <<ltr_cnt, sbl_cnt, num_cnt, key, UNIT, DATA>>

work == <<pc, cls, chunks, res, done, parts, produced, PWD>>

-----------------------------------------------------------------------------
(* Bounds of the model *)

\* add_item is not explored past pools of this length
MaxPool == 3

\* the largest ltr_cnt + sbl_cnt + num_cnt of a generation
MaxLen == 3

\* the largest count and unit the chunker is applied to on its own
MaxDivN == 12

MaxDivUnit == 5

\* BigUint::from(u16::MAX), the unit of a new generator
DefaultUnit == 65535

\* the characters of the model, by ASCII category
Letters == {"a"}

Puncts == {"-"}

Digits == {"1", "2"}

\* a token that is not ASCII
NonAscii == "U+00E9"

Tokens == Letters \cup Puncts \cup Digits \cup {NonAscii}

\* decimal texts handed to new, set_cnt and set_unit
CntTexts == {<<"0">>, <<"1">>}

UnitTexts == {<<"0">>, <<"0", "0">>, <<"0", "2">>, <<"x">>}

\* strings handed to set_key
KeyVals == {<<"a">>, <<"2", "-">>}

\* token lists handed to replace_data, add_item and del_item: the empty list,
\* every single token, every pair of numbers (both orders, a repeated one),
\* two classes, ASCII beside non-ASCII, and one token of every class
Items ==
    {<<>>} \cup {<<t>> : t \in Tokens} \cup [1..2 -> Digits]
        \cup {<<"a", "1">>, <<"1", "U+00E9">>, <<"a", "-", "1">>}

-----------------------------------------------------------------------------
(* Helpers *)

Range(s) == {s[i] : i \in 1..Len(s)}

RECURSIVE Flatten(_)
Flatten(ss) == IF ss = <<>> THEN <<>> ELSE Head(ss) \o Flatten(Tail(ss))

RECURSIVE Sum(_)
Sum(s) == IF s = <<>> THEN 0 ELSE Head(s) + Sum(Tail(s))

Count(s, S) == Cardinality({i \in 1..Len(s) : s[i] \in S})

is_ascii_alphabetic(x) == x \in Letters

is_ascii_punctuation(x) == x \in Puncts

is_ascii_digit(x) == x \in Digits

\* Vec::dedup_by_key: removes consecutive repeated elements, keeping the first
RECURSIVE dedup_by_key(_)
dedup_by_key(s) ==
    IF Len(s) <= 1 THEN s
    ELSE IF s[1] = s[2] THEN dedup_by_key(Tail(s))
         ELSE <<s[1]>> \o dedup_by_key(Tail(s))

\* utils::check_ascii: every token is a single ASCII character
check_ascii(items) == \A i \in 1..Len(items) : items[i] # NonAscii

\* utils::char_from_str: the character of a one-character token
char_from_str(x) == x

\* the partition of replace_data: three pushes under three exclusive tests
Partition(val) ==
    << SelectSeq(val, LAMBDA x : is_ascii_alphabetic(char_from_str(x))),
       SelectSeq(val, LAMBDA x : is_ascii_punctuation(char_from_str(x))),
       SelectSeq(val, LAMBDA x : is_ascii_digit(char_from_str(x))) >>

\* utils::group: the same partition, as a helper
group(v) == Partition(v)

\* utils::_DATA: the pools a new generator starts with, all three non-empty
_DATA == << <<"a">>, <<"-">>, <<"1", "2">> >>

DigitVal(c) ==
    CASE c = "0" -> 0 [] c = "1" -> 1 [] c = "2" -> 2 [] c = "3" -> 3
      [] c = "4" -> 4 [] c = "5" -> 5 [] c = "6" -> 6 [] c = "7" -> 7
      [] c = "8" -> 8 [] c = "9" -> 9

DecDigits == {"0", "1", "2", "3", "4", "5", "6", "7", "8", "9"}

\* prelude::AsBiguint::as_biguint: is_ok, and the value of a decimal text
parses(t) == Len(t) > 0 /\ \A i \in 1..Len(t) : t[i] \in DecDigits

RECURSIVE as_biguint(_)
as_biguint(t) ==
    IF t = <<>> THEN 0
    ELSE 10 * as_biguint(SubSeq(t, 1, Len(t) - 1)) + DigitVal(t[Len(t)])

\* utils::_CNT: how many letters, symbols and numbers a string holds
_CNT(val) == <<Count(val, Letters), Count(val, Puncts), Count(val, Digits)>>

cnt(c) == CASE c = 1 -> ltr_cnt [] c = 2 -> sbl_cnt [] c = 3 -> num_cnt

-----------------------------------------------------------------------------
(* RandKey::check_data *)

\* check_data with the counts left out: any empty pool is an error
check_data_any_empty(l, s, n, D) ==
    IF ~(D[1] = <<>> \/ D[2] = <<>> \/ D[3] = <<>>) THEN "Ok" ELSE "MissChar"

\* check_data on a generator with counts l, s, n and pools D
check_data_on(l, s, n, D) ==
    LET L == l = 0
        S == s = 0
        N == n = 0
        dl == D[1] = <<>>
        ds == D[2] = <<>>
        dn == D[3] = <<>>
        dl_L == ~L /\ dl
        ds_S == ~S /\ ds
        dn_N == ~N /\ dn
    IN  IF ~(dl_L \/ ds_S \/ dn_N) THEN "Ok" ELSE "MissChar"

check_data == check_data_on(ltr_cnt, sbl_cnt, num_cnt, DATA)

-----------------------------------------------------------------------------
(* The state after RandKey::new(l, s, n) *)

Idle ==
    /\ pc = "idle"
    /\ cls = 0
    /\ chunks = <<>>
    /\ res = <<>>
    /\ done = <<>>
    /\ parts = <<>>
    /\ produced = {}
    /\ PWD = <<>>

new(l, s, n) ==
    /\ parses(l) /\ parses(s) /\ parses(n)
    /\ ltr_cnt = as_biguint(l)
    /\ sbl_cnt = as_biguint(s)
    /\ num_cnt = as_biguint(n)
    /\ key = <<>>
    /\ UNIT = DefaultUnit
    /\ DATA = _DATA
    /\ last = <<"new", "Ok">>

Init == Idle /\ \E l \in CntTexts, s \in CntTexts, n \in CntTexts : new(l, s, n)

-----------------------------------------------------------------------------
(* Configuration *)

set_key_update(val) ==
    /\ ltr_cnt' = _CNT(val)[1]
    /\ sbl_cnt' = _CNT(val)[2]
    /\ num_cnt' = _CNT(val)[3]
    /\ key' = val
    /\ last' = <<"set_key", "Ok">>
    /\ UNCHANGED <<UNIT, DATA>>

set_key_check(val) ==
    IF <<ltr_cnt, sbl_cnt, num_cnt>> = _CNT(val)
    THEN /\ key' = val
         /\ last' = <<"set_key", "Ok">>
         /\ UNCHANGED <<ltr_cnt, sbl_cnt, num_cnt, UNIT, DATA>>
    ELSE /\ last' = <<"set_key", "InconsistentField">>
         /\ UNCHANGED gen

set_key(val, op) ==
    /\ pc = "idle"
    /\ IF op = "Update" THEN set_key_update(val) ELSE set_key_check(val)
    /\ UNCHANGED work

\* set_unit with the test for zero left out
set_unit_unchecked(val) ==
    /\ pc = "idle"
    /\ IF ~parses(val)
       THEN /\ last' = <<"set_unit", "InvalidNumber">>
            /\ UNIT' = UNIT
       ELSE /\ UNIT' = as_biguint(val)
            /\ last' = <<"set_unit", "Ok">>
    /\ UNCHANGED <<ltr_cnt, sbl_cnt, num_cnt, key, DATA>>
    /\ UNCHANGED work

set_unit(val) ==
    /\ pc = "idle"
    /\ IF ~parses(val)
       THEN /\ last' = <<"set_unit", "InvalidNumber">>
            /\ UNIT' = UNIT
       ELSE IF as_biguint(val) = 0
            THEN /\ last' = <<"set_unit", "InvalidUnit">>
                 /\ UNIT' = UNIT
            ELSE /\ UNIT' = as_biguint(val)
                 /\ last' = <<"set_unit", "Ok">>
    /\ UNCHANGED <<ltr_cnt, sbl_cnt, num_cnt, key, DATA>>
    /\ UNCHANGED work

set_cnt(kind, val) ==
    /\ pc = "idle"
    /\ parses(val)
    /\ ltr_cnt' = IF kind = 1 THEN as_biguint(val) ELSE ltr_cnt
    /\ sbl_cnt' = IF kind = 2 THEN as_biguint(val) ELSE sbl_cnt
    /\ num_cnt' = IF kind = 3 THEN as_biguint(val) ELSE num_cnt
    /\ last' = <<"set_cnt", "Ok">>
    /\ UNCHANGED <<key, UNIT, DATA>>
    /\ UNCHANGED work

-----------------------------------------------------------------------------
(* Pool editing *)

clear_all ==
    /\ pc = "idle"
    /\ DATA' = [i \in 1..3 |-> <<>>]
    /\ last' = <<"clear_all", "Ok">>
    /\ UNCHANGED <<ltr_cnt, sbl_cnt, num_cnt, key, UNIT>>
    /\ UNCHANGED work

clear(kind) ==
    /\ pc = "idle"
    /\ DATA' = [DATA EXCEPT ![kind] = <<>>]
    /\ last' = <<"clear", "Ok">>
    /\ UNCHANGED <<ltr_cnt, sbl_cnt, num_cnt, key, UNIT>>
    /\ UNCHANGED work

\* the pools del_item leaves, when it deletes
del_data(items) ==
    LET all == DATA[1] \o DATA[2] \o DATA[3]
        v == dedup_by_key([i \in 1..Len(items) |-> char_from_str(items[i])])
    IN  group(SelectSeq(all, LAMBDA x : char_from_str(x) \notin Range(v)))

\* del_found with find() turned round: some item is held by some pool
del_found_any(items) ==
    LET all == DATA[1] \o DATA[2] \o DATA[3]
    IN  items = <<>> \/ \E i \in 1..Len(items) : items[i] \in Range(all)

\* whether every item is held by some pool
del_found(items) ==
    LET all == DATA[1] \o DATA[2] \o DATA[3]
        v == dedup_by_key([i \in 1..Len(items) |-> char_from_str(items[i])])
    IN  ~ \E i \in 1..Len(v) : v[i] \notin Range(all)

del_item(items) ==
    /\ pc = "idle"
    /\ IF check_ascii(items)
       THEN IF del_found(items)
            THEN /\ DATA' = del_data(items)
                 /\ last' = <<"del_item", "Ok">>
            ELSE /\ last' = <<"del_item", "DelNonExistValue">>
                 /\ DATA' = DATA
       ELSE /\ last' = <<"del_item", "InvalidChar">>
            /\ DATA' = DATA
    /\ UNCHANGED <<ltr_cnt, sbl_cnt, num_cnt, key, UNIT>>
    /\ UNCHANGED work

\* the pools add_item leaves
add_data(val) ==
    LET g == group(val)
    IN  [i \in 1..3 |-> dedup_by_key(DATA[i] \o g[i])]

add_item(val) ==
    /\ pc = "idle"
    /\ IF check_ascii(val)
       THEN /\ \A i \in 1..3 : Len(add_data(val)[i]) <= MaxPool
            /\ DATA' = add_data(val)
            /\ last' = <<"add_item", "Ok">>
       ELSE /\ last' = <<"add_item", "InvalidChar">>
            /\ DATA' = DATA
    /\ UNCHANGED <<ltr_cnt, sbl_cnt, num_cnt, key, UNIT>>
    /\ UNCHANGED work

replace_data(val) ==
    /\ pc = "idle"
    /\ IF check_ascii(val)
       THEN /\ DATA' = Partition(val)
            /\ UNCHANGED <<ltr_cnt, sbl_cnt, num_cnt>>
            /\ last' = <<"replace_data",
                         check_data_on(ltr_cnt, sbl_cnt, num_cnt, Partition(val))>>
       ELSE /\ last' = <<"replace_data", "InvalidChar">>
            /\ UNCHANGED <<ltr_cnt, sbl_cnt, num_cnt, DATA>>
    /\ UNCHANGED <<key, UNIT>>
    /\ UNCHANGED work

-----------------------------------------------------------------------------
(* RandKey::join *)

\* _DIV_UNIT pushing the remainder even when it is zero
_DIV_UNIT_trailing(unit, n) == [i \in 1..(n \div unit) |-> unit] \o <<n % unit>>

\* utils::_DIV_UNIT: n / unit chunks of unit, then the remainder if positive
_DIV_UNIT(unit, n) ==
    LET q == n \div unit
        r == n % unit
    IN  [i \in 1..q |-> unit] \o (IF r > 0 THEN <<r>> ELSE <<>>)

\* utils::_RAND_IDX: every list of n indices into a pool of the given length
_RAND_IDX(n, length) == [1..n -> 1..length]

\* the pools paired with the counts one class off
PairedDataShifted(c) == DATA[(c % 3) + 1]

\* the pool paired with the count of class c in join's vec![(cnt, data); 3]
PairedData(c) == DATA[c]

\* the closure of par_iter().map: one string per chunk
UnitStrings(n, data) ==
    {[j \in 1..n |-> data[idx[j]]] : idx \in _RAND_IDX(n, Len(data))}

\* outputs placed in the order the tasks finished
CollectByCompletion == done

\* the order in which collect() places the outputs: by chunk index
CollectOrder == [i \in 1..Len(chunks) |-> i]

\* the assembly with the last class left out
AssembleTwo(ps) == Flatten(Flatten(SubSeq(ps, 1, 2)))

\* .collect::<Vec<Vec<_>>>().concat().join("")
Assemble(ps) == Flatten(Flatten(ps))

\* slice::shuffle: every permutation of the bytes
Shuffles(s) ==
    LET n == Len(s)
        P == {p \in [1..n -> 1..n] : \A i, j \in 1..n : p[i] = p[j] => i = j}
    IN  {[i \in 1..n |-> s[p[i]]] : p \in P}

\* the map over class c starts: its count is cut into chunks
StartClass(c) ==
    /\ cls' = c
    /\ chunks' = _DIV_UNIT(UNIT, cnt(c))
    /\ res' = [i \in 1..Len(chunks') |-> <<>>]
    /\ done' = <<>>

\* the failing branch of join clearing the key before it returns
join_failed_clears ==
    /\ last' = <<"join", check_data>>
    /\ key' = <<>>
    /\ UNCHANGED <<ltr_cnt, sbl_cnt, num_cnt, UNIT, DATA>>
    /\ UNCHANGED work

\* the failing branch of join: the error of check_data is returned
join_failed ==
    /\ last' = <<"join", check_data>>
    /\ UNCHANGED gen
    /\ UNCHANGED work

join_begin ==
    /\ pc = "idle"
    /\ IF check_data = "Ok"
       THEN /\ pc' = "map"
            /\ StartClass(1)
            /\ parts' = <<>>
            /\ produced' = {}
            /\ PWD' = <<>>
            /\ UNCHANGED <<gen, last>>
       ELSE join_failed

\* one task of the parallel map finishes chunk i of the current class
unit_task(i) ==
    /\ pc = "map"
    /\ i \in 1..Len(chunks)
    /\ i \notin Range(done)
    /\ \E s \in UnitStrings(chunks[i], PairedData(cls)) :
          /\ res' = [res EXCEPT ![i] = s]
          /\ produced' = produced \cup {<<cls, i, s>>}
    /\ done' = Append(done, i)
    /\ UNCHANGED <<gen, last, pc, cls, chunks, parts, PWD>>

\* every task of the current class has finished: collect, then the next class
collect ==
    /\ pc = "map"
    /\ Range(done) = 1..Len(chunks)
    /\ parts' = Append(parts, [k \in 1..Len(chunks) |-> res[CollectOrder[k]]])
    /\ IF cls < 3
       THEN /\ StartClass(cls + 1)
            /\ UNCHANGED <<pc, PWD>>
       ELSE /\ pc' = "shuffle"
            /\ PWD' = Assemble(parts')
            /\ UNCHANGED <<cls, chunks, res, done>>
    /\ UNCHANGED <<gen, last, produced>>

\* the shuffled bytes become the key and join returns Ok
join_finish ==
    /\ pc = "shuffle"
    /\ key' \in Shuffles(PWD)
    /\ last' = <<"join", "Ok">>
    /\ pc' = "idle"
    /\ cls' = 0
    /\ chunks' = <<>>
    /\ res' = <<>>
    /\ done' = <<>>
    /\ parts' = <<>>
    /\ produced' = {}
    /\ PWD' = <<>>
    /\ UNCHANGED <<ltr_cnt, sbl_cnt, num_cnt, UNIT, DATA>>

\* the units of a generation: the default and two small ones
Units == {1, 2, DefaultUnit}

\* the pools of a generation
JoinPools ==
    {<<l, s, n>> : l \in {<<>>, <<"a">>}, s \in {<<>>, <<"-">>},
                   n \in {<<>>, <<"2">>, <<"1", "2">>, <<"1", "2", "1">>}}

\* the key before a generation: none, or one set by set_key
PriorKeys == {<<>>, <<"2", "-">>}

\* a generator as new, set_cnt, set_unit, replace_data, add_item and set_key
\* leave it
InitJoin ==
    /\ Idle
    /\ ltr_cnt \in 0..MaxLen
    /\ sbl_cnt \in 0..MaxLen
    /\ num_cnt \in 0..MaxLen
    /\ ltr_cnt + sbl_cnt + num_cnt <= MaxLen
    /\ UNIT \in Units
    /\ DATA \in JoinPools
    /\ key \in PriorKeys
    /\ last = <<"set_cnt", "Ok">>

NextJoin ==
    \/ join_begin
    \/ \E i \in 1..MaxLen : unit_task(i)
    \/ collect
    \/ join_finish

SpecJoin == InitJoin /\ [][NextJoin]_vars

-----------------------------------------------------------------------------
(* The chunker on its own *)

InitDiv ==
    /\ Idle
    /\ ltr_cnt \in 0..MaxDivN
    /\ sbl_cnt = 0
    /\ num_cnt = 0
    /\ UNIT \in 1..MaxDivUnit
    /\ DATA = _DATA
    /\ key = <<>>
    /\ last = <<"set_unit", "Ok">>

\* join up to the call _DIV_UNIT(unit, bignum) for the letters
NextDiv == join_begin

SpecDiv == InitDiv /\ [][NextDiv]_vars

-----------------------------------------------------------------------------
Next ==
    \/ \E val \in KeyVals, op \in {"Update", "Check"} : set_key(val, op)
    \/ \E val \in UnitTexts : set_unit(val)
    \/ \E kind \in 1..3, val \in CntTexts : set_cnt(kind, val)
    \/ clear_all
    \/ \E kind \in 1..3 : clear(kind)
    \/ \E items \in Items : del_item(items)
    \/ \E val \in Items : add_item(val)
    \/ \E val \in Items : replace_data(val)

Spec == Init /\ [][Next]_vars

-----------------------------------------------------------------------------
(* Properties *)

ClassChars(c) == CASE c = 1 -> Letters [] c = 2 -> Puncts [] c = 3 -> Digits

Held == Range(DATA[1]) \cup Range(DATA[2]) \cup Range(DATA[3])

NoRepeat(s) == \A i, j \in 1..Len(s) : s[i] = s[j] => i = j

IsPermutation(s, t) ==
    /\ Len(s) = Len(t)
    /\ \A x \in Range(s) \cup Range(t) : Count(s, {x}) = Count(t, {x})

JoinReturnedOk == pc = "idle" /\ last = <<"join", "Ok">>

\* C1: a join() that fails validation returns MissChar and leaves the key (and
\* the rest of the generator) as it was; the key changes in no step but the one
\* in which join returns Ok, and there it becomes the whole new key: a
\* permutation of the string assembled for this call, not a mix with the old key.
C1_JoinFailsWhole ==
    [][ /\ (pc = "idle" /\ check_data # "Ok")
            => (last' = <<"join", "MissChar">> /\ gen' = gen /\ pc' = "idle")
        /\ (key' # key)
            => (pc = "shuffle" /\ pc' = "idle" /\ last' = <<"join", "Ok">>)
        /\ (pc = "shuffle")
            => (last' = <<"join", "Ok">> /\ IsPermutation(key', PWD))
      ]_vars

\* a join that failed on a generator holding an earlier key
C1_Witness == last = <<"join", "MissChar">> /\ key = <<"2", "-">>

\* C2: after a successful join() the key is ltr_cnt + sbl_cnt + num_cnt long,
\* whatever the counts and the unit.
C2_KeyLength == JoinReturnedOk => Len(key) = ltr_cnt + sbl_cnt + num_cnt

\* a key of three characters made of a full chunk and a remainder
C2_Witness == JoinReturnedOk /\ Len(key) = 3 /\ num_cnt = 3 /\ UNIT = 2

\* C3: after a successful join() every character of the key is in the pool of
\* its class, and the key holds exactly the requested count of each class.
C3_Composition ==
    JoinReturnedOk =>
        /\ \A i \in 1..Len(key) :
              \E c \in 1..3 : key[i] \in ClassChars(c) \cap Range(DATA[c])
        /\ \A c \in 1..3 : Count(key, ClassChars(c)) = cnt(c)

\* a key of two classes drawn from an edited pool of numbers
C3_Witness ==
    /\ JoinReturnedOk
    /\ DATA[3] = <<"1", "2", "1">>
    /\ num_cnt = 2
    /\ ltr_cnt = 1
    /\ key[1] = "2"

\* C4: check_data fails, with MissChar, exactly when some class has a nonzero
\* count and an empty pool; replace_data on ASCII tokens returns that verdict
\* for the pools it has just stored.
C4_CheckData ==
    LET missing == \E c \in 1..3 : cnt(c) # 0 /\ Len(DATA[c]) = 0
    IN  /\ check_data = (IF missing THEN "MissChar" ELSE "Ok")
        /\ (last[1] = "replace_data" /\ last[2] # "InvalidChar")
              => last[2] = (IF missing THEN "MissChar" ELSE "Ok")

\* validation passes with an empty pool in a class whose count is zero
C4_Witness ==
    /\ last = <<"replace_data", "Ok">>
    /\ ltr_cnt = 0 /\ DATA[1] = <<>>
    /\ num_cnt # 0 /\ DATA[3] # <<>>

\* C5: the chunks of a count n under a unit are n / unit chunks equal to the
\* unit, then one chunk n % unit when that is positive, and none when n = 0:
\* they sum to n, and every chunk is positive and at most the unit.
C5_Chunks ==
    pc = "map" =>
        LET n == ltr_cnt
            q == n \div UNIT
            r == n % UNIT
        IN  /\ Len(chunks) = q + (IF r > 0 THEN 1 ELSE 0)
            /\ \A i \in 1..q : chunks[i] = UNIT
            /\ r > 0 => chunks[Len(chunks)] = r
            /\ n = 0 => chunks = <<>>
            /\ Sum(chunks) = n
            /\ \A i \in 1..Len(chunks) : chunks[i] > 0 /\ chunks[i] <= UNIT

\* two full chunks and a remainder
C5_Witness == pc = "map" /\ ltr_cnt = 7 /\ UNIT = 3 /\ chunks = <<3, 3, 1>>

\* C6: a step in which an operation returns an error leaves the pools, the
\* counts, the unit and the key as they were.
C6_ErrorKeepsState == [][last'[2] # "Ok" => gen' = gen]_vars

\* C7: after a successful add_item no character occurs twice in a pool.
C7_AddDeduplicates ==
    last = <<"add_item", "Ok">> => \A c \in 1..3 : NoRepeat(DATA[c])

\* C8: del_item on ASCII items fails with DelNonExistValue exactly when some
\* item is in none of the pools, and then leaves the pools as they were;
\* otherwise it returns Ok, and each pool is what it was without the items.
C8_DelItem ==
    [][ last'[1] = "del_item" =>
        \A items \in {it \in Items : check_ascii(it)} :
          del_item(items) =>
            LET req == Range(items)
                absent == \E x \in req : x \notin Held
            IN  /\ last'[2] = (IF absent THEN "DelNonExistValue" ELSE "Ok")
                /\ absent => DATA' = DATA
                /\ ~absent =>
                      \A c \in 1..3 :
                          DATA'[c] = SelectSeq(DATA[c], LAMBDA x : x \notin req)
      ]_vars

\* the delete of the documentation: "1" goes, "2" and the other classes stay
C8_Witness ==
    /\ last = <<"del_item", "Ok">>
    /\ DATA = << <<"a">>, <<"-">>, <<"2">> >>

\* C9: the unit is 65535 after new and positive ever after; set_unit with a
\* text that parses to zero returns InvalidUnit and leaves the unit as it was,
\* and with a text that parses to a positive number sets the unit to it.
C9_UnitPositive ==
    /\ UNIT = DefaultUnit
    /\ [](UNIT > 0)
    /\ [][ last'[1] = "set_unit" =>
           \A val \in {t \in UnitTexts : parses(t)} :
             set_unit(val) =>
               IF as_biguint(val) = 0
               THEN last' = <<"set_unit", "InvalidUnit">> /\ UNIT' = UNIT
               ELSE last' = <<"set_unit", "Ok">> /\ UNIT' = as_biguint(val)
         ]_vars

\* a zero unit refused on a generator whose unit had been set before
C9_Witness == last = <<"set_unit", "InvalidUnit">> /\ UNIT = 2

\* the output the task of chunk i of class c returned
OutputOf(c, i) ==
    (CHOOSE t \in produced : t[1] = c /\ t[2] = i)[3]

NumChunks(c) == Len(_DIV_UNIT(UNIT, cnt(c)))

\* C10: whatever the order in which the tasks finish, the outputs collected
\* for a class stand in chunk order, and the string built before the shuffle
\* is those blocks in the order letters, symbols, numbers.
C10_AssemblyOrder ==
    /\ pc \in {"map", "shuffle"} =>
          \A c \in 1..Len(parts) :
              /\ Len(parts[c]) = NumChunks(c)
              /\ \A i \in 1..NumChunks(c) : parts[c][i] = OutputOf(c, i)
    /\ pc = "shuffle" =>
          PWD = Flatten([c \in 1..3 |->
                    Flatten([i \in 1..NumChunks(c) |-> OutputOf(c, i)])])

\* the second chunk finished first, with a different output
C10_Witness ==
    /\ pc = "shuffle"
    /\ done = <<2, 1>>
    /\ res[1] # res[2]

====
